---------------------------- MODULE Spec2Model ----------------------------
(***************************************************************************)
(* A model of YALisp (src/yalisp.h, src/main.c): the recursive-descent     *)
(* parser, the evaluator and the driver that reads a line, parses it,      *)
(* evaluates the tree, prints and releases.                                *)
(*                                                                         *)
(* Characters are one-character strings; the C string terminator is NUL.   *)
(* A C string in memory is a sequence of characters indexed from 0 by the  *)
(* cursor (input[p] is the (p+1)-th element).  The heap is modelled        *)
(* explicitly: every malloc/strdup/strndup/realloc appends an object, and  *)
(* every free marks one dead, so leaks and double frees are observable.    *)
(***************************************************************************)
EXTENDS Integers, Sequences, FiniteSets, TLC

VARIABLES pc, buf, nlines, pres, eres, heap

vars == <<pc, buf, nlines, pres, eres, heap>>

-----------------------------------------------------------------------------
(* Bounds of the model *)

\* longest line fgets returns in Spec (the program allows 1023)
MaxLen == 4
\* lines read before end of input in Spec
MaxLines == 1
\* most arguments of the outermost form in SpecEval
MaxArgs == 2
\* longest digit run in SpecLit
MaxDigits == 10

-----------------------------------------------------------------------------
(* Characters *)

NUL == "NUL"
\* what a read outside the input array yields when it does not fault
FAULT == "FAULT"
NULL == 0

\* the character codes the code compares and subtracts (ASCII)
Ord(c) ==
    CASE c = "0" -> 48 [] c = "1" -> 49 [] c = "2" -> 50 [] c = "3" -> 51
      [] c = "4" -> 52 [] c = "5" -> 53 [] c = "6" -> 54 [] c = "7" -> 55
      [] c = "8" -> 56 [] c = "9" -> 57
      [] c = "(" -> 40 [] c = ")" -> 41 [] c = " " -> 32 [] c = "\n" -> 10
      [] c = "\t" -> 9 [] c = "\"" -> 34 [] c = "+" -> 43 [] c = "-" -> 45
      [] c = "a" -> 97 [] c = "c" -> 99 [] c = "f" -> 102 [] c = "n" -> 110
      [] c = "o" -> 111 [] c = "t" -> 116 [] c = "x" -> 120
      [] OTHER -> 0

IsSpace(c) == c = " " \/ c = "\n" \/ c = "\t"

IsDigit(c) == Ord(c) >= Ord("0") /\ Ord(c) <= Ord("9")

\* input[p]; `beyond` is what lies outside the array
At(input, p, beyond) == IF p < Len(input) THEN input[p + 1] ELSE beyond

-----------------------------------------------------------------------------
(* 32-bit int arithmetic (two's complement wrap-around) *)

INT_MAX == 2147483647
INT_MIN == -INT_MAX - 1

Add32(a, b) ==
    IF b > 0 /\ a > INT_MAX - b THEN (a - INT_MAX) + (b + INT_MIN) - 1
    ELSE IF b < 0 /\ a < INT_MIN - b THEN (a - INT_MIN) + (b + INT_MAX) + 1
    ELSE a + b

Sub32(a, b) ==
    IF b > 0 /\ a < INT_MIN + b THEN (a - INT_MIN) + (INT_MAX - b) + 1
    ELSE IF b < 0 /\ a > INT_MAX + b THEN (a - INT_MAX) + (INT_MIN - b) - 1
    ELSE a - b

Mul10(a) ==
    LET a2 == Add32(a, a)
        a4 == Add32(a2, a2)
        a8 == Add32(a4, a4)
    IN Add32(a8, a2)

-----------------------------------------------------------------------------
(* The heap *)

EmptyHeap == [objs |-> <<>>, bad |-> 0]

\* the address the next allocation returns
NewAddr(h) == Len(h.objs) + 1

Malloc(h, kind) == [h EXCEPT !.objs = Append(@, [kind |-> kind, live |-> TRUE])]

\* free(NULL) does nothing; freeing a dead or unknown object is counted
Free(h, a) ==
    IF a = NULL THEN h
    ELSE IF a \in 1..Len(h.objs) /\ h.objs[a].live
         THEN [h EXCEPT !.objs[a].live = FALSE]
         ELSE [h EXCEPT !.bad = @ + 1]

Live(h) == {a \in 1..Len(h.objs) : h.objs[a].live}

-----------------------------------------------------------------------------
(* AST nodes *)

NoNode == [type |-> "none", addr |-> NULL, int_value |-> 0, text |-> <<>>,
           text_addr |-> NULL, items |-> <<>>, items_addr |-> NULL]

\* the node and the heap after create_int_node
create_int_node(h, value) ==
    [node |-> [NoNode EXCEPT !.type = "int", !.addr = NewAddr(h),
                             !.int_value = value],
     heap |-> Malloc(h, "ast_node")]

create_symbol_node(h, value) ==
    LET h1 == Malloc(h, "ast_node")
    IN [node |-> [NoNode EXCEPT !.type = "symbol", !.addr = NewAddr(h),
                                !.text = value, !.text_addr = NewAddr(h1)],
        heap |-> Malloc(h1, "symbol_value")]

create_string_node(h, value) ==
    LET h1 == Malloc(h, "ast_node")
    IN [node |-> [NoNode EXCEPT !.type = "string", !.addr = NewAddr(h),
                                !.text = value, !.text_addr = NewAddr(h1)],
        heap |-> Malloc(h1, "string_value")]

create_list_node(h, items, items_addr) ==
    [node |-> [NoNode EXCEPT !.type = "list", !.addr = NewAddr(h),
                             !.items = items, !.items_addr = items_addr],
     heap |-> Malloc(h, "ast_node")]

RECURSIVE free_ast_node(_, _)
RECURSIVE free_items(_, _, _)

\* the loop of free_ast_node over list.items, from index i (0-based)
free_items(h, items, i) ==
    IF i < Len(items)
    THEN free_items(free_ast_node(h, items[i + 1]), items, i + 1)
    ELSE h

free_ast_node(h, node) ==
    IF node.type = "symbol" THEN Free(Free(h, node.text_addr), node.addr)
    ELSE IF node.type = "list"
    THEN Free(Free(free_items(h, node.items, 0), node.items_addr), node.addr)
    ELSE Free(h, node.addr)

-----------------------------------------------------------------------------
(* Parse results *)

NoParse == [is_error |-> 0, node |-> NoNode, error_message |-> "",
            msg_addr |-> NULL, crash |-> FALSE, pos |-> 0, rd |-> 0,
            heap |-> EmptyHeap]

\* create_parse_success, with the cursor, the last index read and the heap
create_parse_success(h, node, pos, rd) ==
    [NoParse EXCEPT !.node = node, !.pos = pos, !.rd = rd, !.heap = h]

create_parse_error(h, message, pos, rd) ==
    [NoParse EXCEPT !.is_error = 1, !.error_message = message,
                    !.msg_addr = NewAddr(h), !.pos = pos, !.rd = rd,
                    !.heap = Malloc(h, "error_message")]

free_parse_result(h, res) ==
    IF res.is_error = 1 THEN Free(h, res.msg_addr)
    ELSE free_ast_node(h, res.node)

-----------------------------------------------------------------------------
(* parse *)

RECURSIVE SkipSpace(_, _, _)
\* the cursor after the whitespace loop
SkipSpace(input, p, beyond) ==
    IF IsSpace(At(input, p, beyond)) THEN SkipSpace(input, p + 1, beyond)
    ELSE p

\* (the digit's character code added without taking '0' off)
DigitStep_NoOffset(value, c) == Add32(Mul10(value), Ord(c))

\* value = value * 10 + (input[*pos] - '0')
DigitStep(value, c) == Add32(Mul10(value), Ord(c) - Ord("0"))

RECURSIVE ParseDigits(_, _, _, _)
\* the digit loop: the cursor and the value when it ends
ParseDigits(input, p, value, beyond) ==
    IF IsDigit(At(input, p, beyond))
    THEN ParseDigits(input, p + 1, DigitStep(value, At(input, p, beyond)), beyond)
    ELSE [pos |-> p, value |-> value]

RECURSIVE StringEnd(_, _, _)
\* the cursor after the loop that looks for the closing quote
StringEnd(input, p, beyond) ==
    IF At(input, p, beyond) # "\"" /\ At(input, p, beyond) # NUL
    THEN StringEnd(input, p + 1, beyond)
    ELSE p

\* the condition of the symbol loop
SymbolContinues(c) == c # " " /\ c # ")" /\ c # "\n" /\ c # "\t"

RECURSIVE SymbolEnd(_, _, _)
\* the cursor after the symbol loop (it stops on a read that faults)
SymbolEnd(input, p, beyond) ==
    IF At(input, p, beyond) # FAULT /\ SymbolContinues(At(input, p, beyond))
    THEN SymbolEnd(input, p + 1, beyond)
    ELSE p

RECURSIVE StrNDup(_, _, _)
\* strndup(input + start, n): at most n characters, none past a terminator
StrNDup(input, start, n) ==
    IF n = 0 \/ start >= Len(input) \/ input[start + 1] = NUL THEN <<>>
    ELSE <<input[start + 1]>> \o StrNDup(input, start + 1, n - 1)

RECURSIVE parse(_, _, _, _)
RECURSIVE parse_list(_, _, _, _, _, _)

\* the list loop and what follows it; items/items_addr are the array so far
parse_list(input, p, h, items, items_addr, beyond) ==
    LET c == At(input, p, beyond) IN
    IF c # ")" /\ c # NUL
    THEN LET sub == parse(input, p, h, beyond) IN
         IF sub.crash THEN sub
         ELSE IF sub.is_error = 1
         THEN [sub EXCEPT !.heap = Free(free_items(sub.heap, items, 0), items_addr)]
         ELSE LET h1 == IF items_addr = NULL THEN Malloc(sub.heap, "items")
                        ELSE sub.heap
                  a1 == IF items_addr = NULL THEN NewAddr(sub.heap)
                        ELSE items_addr
              IN parse_list(input, sub.pos, h1, Append(items, sub.node), a1, beyond)
    ELSE IF c = NUL
    THEN create_parse_error(Free(free_items(h, items, 0), items_addr),
                            "Unmatched '(' in input", p, p)
    ELSE LET cn == create_list_node(h, items, items_addr)
         IN create_parse_success(cn.heap, cn.node, p + 1, p)

parse(input, pos, h, beyond) ==
    LET p == SkipSpace(input, pos, beyond)
        c == At(input, p, beyond)
    IN
    IF c = "("
    THEN parse_list(input, p + 1, h, <<>>, NULL, beyond)
    ELSE IF IsDigit(c)
    THEN LET d == ParseDigits(input, p, 0, beyond)
             cn == create_int_node(h, d.value)
         IN create_parse_success(cn.heap, cn.node, d.pos, d.pos)
    ELSE IF c = "\""
    THEN LET start == p + 1
             e == StringEnd(input, start, beyond)
         IN IF At(input, e, beyond) = NUL
            THEN create_parse_error(h, "Unterminated string literal in input", e, e)
            ELSE LET h1 == Malloc(h, "strndup")
                     cn == create_string_node(h1, StrNDup(input, start, e - start))
                 IN create_parse_success(cn.heap, cn.node, e + 1, e)
    ELSE IF c # NUL
    THEN LET e == SymbolEnd(input, p, beyond) IN
         IF At(input, e, beyond) = FAULT
         THEN [NoParse EXCEPT !.crash = TRUE, !.pos = e, !.rd = e, !.heap = h]
         ELSE LET h1 == Malloc(h, "strndup")
                  cn == create_symbol_node(h1, StrNDup(input, p, e - p))
              IN create_parse_success(cn.heap, cn.node, e, e)
    ELSE create_parse_error(h, "Unexpected end of input", p, p)

-----------------------------------------------------------------------------
(* Values and results *)

NoValue == [type |-> "none", int_value |-> 0, string_value |-> <<>>,
            addr |-> NULL]

create_int_value(int_value) ==
    [NoValue EXCEPT !.type = "int", !.int_value = int_value]

\* the value and the heap after create_string_value (it copies the text)
create_string_value(h, string) ==
    [value |-> [NoValue EXCEPT !.type = "string", !.string_value = string,
                               !.addr = NewAddr(h)],
     heap |-> Malloc(h, "value_string")]

\* what an evaluation threads along: the heap, the nodes evaluated so far
\* (each named by its path of child indices from the root) and whether a
\* read outside a child array has happened
NoEvalState == [heap |-> EmptyHeap, trace |-> <<>>, ub |-> FALSE]

\* a result, with the evaluation state it leaves and the outcome `wild` that
\* the evaluation was run under (see WildOutcomes)
NoResult == [is_error |-> 0, value |-> NoValue, error_message |-> "",
             msg_addr |-> NULL, crash |-> FALSE, heap |-> EmptyHeap,
             trace |-> <<>>, ub |-> FALSE,
             wild |-> [kind |-> "crash", value |-> 0]]

create_success_result(st, val) ==
    [NoResult EXCEPT !.value = val, !.heap = st.heap, !.trace = st.trace,
                     !.ub = st.ub]

create_error_result(st, message) ==
    [NoResult EXCEPT !.is_error = 1, !.error_message = message,
                     !.msg_addr = NewAddr(st.heap),
                     !.heap = Malloc(st.heap, "error_message"),
                     !.trace = st.trace, !.ub = st.ub]

free_result(h, res) ==
    IF res.is_error = 1 THEN Free(h, res.msg_addr)
    ELSE IF res.value.type = "string" THEN Free(h, res.value.addr)
    ELSE h

\* the evaluation state a result leaves behind
StateOf(res) == [heap |-> res.heap, trace |-> res.trace, ub |-> res.ub]

\* the same, once the result has been released
StateAfterFree(res) ==
    [heap |-> free_result(res.heap, res), trace |-> res.trace, ub |-> res.ub]

-----------------------------------------------------------------------------
(* eval_ast_node *)

\* strcmp(op->symbol_value, name) == 0
IsPlus(op) == op.text = <<"+">>
IsMinus(op) == op.text = <<"-">>
IsConcat(op) == op.text = <<"c", "o", "n", "c", "a", "t">>

\* (a check that lets every first child through)
OpIsNotSymbol_Never(op) == FALSE

\* op->type != node_type_symbol
OpIsNotSymbol(op) == op.type # "symbol"

\* (sum = arg in place of sum += arg)
PlusStep_Assign(sum, v) == v

\* sum += arg;  diff -= arg;  strcat(result_string, arg)
PlusStep(sum, v) == Add32(sum, v)
MinusStep(diff, v) == Sub32(diff, v)
ConcatStep(acc, s) == acc \o s

\* What evaluating node->list.items[1] of the one-element list (-) can do:
\* the pointer read lies outside the array, so the callee sees an arbitrary
\* node or faults.
WildOutcomes ==
    {[kind |-> "crash", value |-> 0], [kind |-> "int", value |-> 0],
     [kind |-> "int", value |-> 7], [kind |-> "error", value |-> 0]}

\* the result of eval_ast_node on that wild pointer, under outcome w
eval_wild(path, st, w) ==
    LET st1 == [st EXCEPT !.trace = Append(@, path), !.ub = TRUE] IN
    IF w.kind = "crash"
    THEN [NoResult EXCEPT !.crash = TRUE, !.heap = st1.heap,
                          !.trace = st1.trace, !.ub = TRUE]
    ELSE IF w.kind = "int"
    THEN create_success_result(st1, create_int_value(w.value))
    ELSE create_error_result(st1, "Unknown AST node type")

RECURSIVE eval_ast_node(_, _, _, _)
RECURSIVE plus_loop(_, _, _, _, _, _)
RECURSIVE minus_loop(_, _, _, _, _, _)
RECURSIVE concat_length_loop(_, _, _, _, _, _)
RECURSIVE concat_copy_loop(_, _, _, _, _, _)

\* for (i = 1; ...) of the + branch, from index i with the sum so far
plus_loop(node, path, i, sum, st, w) ==
    IF i < Len(node.items)
    THEN LET r == eval_ast_node(node.items[i + 1], Append(path, i), st, w) IN
         IF r.crash \/ r.is_error = 1 THEN r
         ELSE IF r.value.type # "int"
         THEN create_error_result(StateOf(r), "Non-integer argument to +")
         ELSE plus_loop(node, path, i + 1, PlusStep(sum, r.value.int_value),
                        StateAfterFree(r), w)
    ELSE create_success_result(st, create_int_value(sum))

\* for (i = 2; ...) of the - branch
minus_loop(node, path, i, diff, st, w) ==
    IF i < Len(node.items)
    THEN LET r == eval_ast_node(node.items[i + 1], Append(path, i), st, w) IN
         IF r.crash \/ r.is_error = 1 THEN r
         ELSE IF r.value.type # "int"
         THEN create_error_result(StateOf(r), "Non-integer argument to +")
         ELSE minus_loop(node, path, i + 1, MinusStep(diff, r.value.int_value),
                         StateAfterFree(r), w)
    ELSE create_success_result(st, create_int_value(diff))

\* the - branch: items[1] is evaluated whatever the length of the list
eval_minus(node, path, st, w) ==
    LET r == IF 1 < Len(node.items)
             THEN eval_ast_node(node.items[2], Append(path, 1), st, w)
             ELSE eval_wild(Append(path, 1), st, w)
    IN
    IF r.crash \/ r.is_error = 1 THEN r
    ELSE IF r.value.type # "int"
    THEN create_error_result(StateOf(r), "Non-integer argument to +")
    ELSE minus_loop(node, path, 2, r.value.int_value, StateAfterFree(r), w)

\* the first loop of the concat branch: checks and total_length
concat_length_loop(node, path, i, total_length, st, w) ==
    IF i < Len(node.items)
    THEN LET r == eval_ast_node(node.items[i + 1], Append(path, i), st, w) IN
         IF r.crash \/ r.is_error = 1 THEN r
         ELSE IF r.value.type # "string"
         THEN create_error_result(StateOf(r), "Non-string argument to concat")
         ELSE concat_length_loop(node, path, i + 1,
                                 total_length + Len(r.value.string_value),
                                 StateAfterFree(r), w)
    ELSE create_success_result(st, create_int_value(total_length))

\* the second loop of the concat branch: evaluates again and appends
concat_copy_loop(node, path, i, result_string, st, w) ==
    IF i < Len(node.items)
    THEN LET r == eval_ast_node(node.items[i + 1], Append(path, i), st, w) IN
         IF r.crash THEN r
         ELSE concat_copy_loop(node, path, i + 1,
                               ConcatStep(result_string, r.value.string_value),
                               StateAfterFree(r), w)
    ELSE LET sv == create_string_value(st.heap, result_string)
         IN create_success_result([st EXCEPT !.heap = sv.heap], sv.value)

eval_concat(node, path, st, w) ==
    LET r == concat_length_loop(node, path, 1, 0, st, w) IN
    IF r.crash \/ r.is_error = 1 THEN r
    ELSE concat_copy_loop(node, path, 1, <<>>,
                          [StateOf(r) EXCEPT !.heap = Malloc(@, "result_string")],
                          w)

eval_ast_node(node, path, st0, w) ==
    LET st == [st0 EXCEPT !.trace = Append(@, path)] IN
    IF node.type = "int"
    THEN create_success_result(st, create_int_value(node.int_value))
    ELSE IF node.type = "string"
    THEN LET sv == create_string_value(st.heap, node.text)
         IN create_success_result([st EXCEPT !.heap = sv.heap], sv.value)
    ELSE IF node.type = "symbol"
    THEN create_error_result(st, "Cannot evaluate a standalone symbol")
    ELSE IF node.type = "list"
    THEN IF Len(node.items) = 0
         THEN create_error_result(st, "Cannot evaluate an empty list")
         ELSE IF OpIsNotSymbol(node.items[1])
         THEN create_error_result(st,
                  "First element of a list must be a symbol (operator)")
         ELSE IF IsPlus(node.items[1]) THEN plus_loop(node, path, 1, 0, st, w)
         ELSE IF IsMinus(node.items[1]) THEN eval_minus(node, path, st, w)
         ELSE IF IsConcat(node.items[1]) THEN eval_concat(node, path, st, w)
         ELSE create_error_result(st, "Unknown operator")
    ELSE create_error_result(st, "Unknown AST node type")

-----------------------------------------------------------------------------
(* The driver: main and process_input *)

\* the characters a line is made of in Spec
LineChars == {"(", ")", " ", "+", "-", "1", "\"", "a"}

\* what the bytes of the input array that fgets has not written may hold
Stale == {NUL, ")"}

\* what a read past the end of the input array may do
Beyond == {FAULT, ")"}

\* char input[1024], scaled to the lines of the model
BufSize == MaxLen + 2

SeqsUpTo(S, n) == UNION {[1..k -> S] : k \in 0..n}

\* what fgets can return: a non-empty line, a newline only as its last
\* character (absent at the end of the input)
Lines ==
    (SeqsUpTo(LineChars, MaxLen) \ {<<>>})
        \cup {Append(s, "\n") : s \in SeqsUpTo(LineChars, MaxLen - 1)}

\* the array once fgets has stored the line and its terminator
StoreLine(array, line) ==
    [i \in 1..Len(array) |->
        IF i <= Len(line) THEN line[i]
        ELSE IF i = Len(line) + 1 THEN NUL
        ELSE array[i]]

Init ==
    /\ pc = "fgets"
    /\ buf \in {[i \in 1..BufSize |-> s] : s \in Stale}
    /\ nlines = 0
    /\ pres = NoParse
    /\ eres = NoResult
    /\ heap = EmptyHeap

\* fgets returns a line
FgetsLine ==
    /\ pc = "fgets"
    /\ nlines < MaxLines
    /\ \E line \in Lines : buf' = StoreLine(buf, line)
    /\ nlines' = nlines + 1
    /\ pres' = NoParse
    /\ eres' = NoResult
    /\ pc' = "parse"
    /\ UNCHANGED heap

\* fgets returns NULL: the loop breaks and main returns
FgetsEof ==
    /\ pc = "fgets"
    /\ pc' = "exit"
    /\ UNCHANGED <<buf, nlines, pres, eres, heap>>

\* the outcomes of reads past the array that this parse can tell apart:
\* all of Beyond if the cursor leaves the array, one of them otherwise
BeyondFor(input, h) ==
    IF parse(input, 0, h, ")").rd >= Len(input) THEN Beyond ELSE {")"}

\* likewise for the read outside a child array
WildFor(node, h) ==
    IF eval_ast_node(node, <<>>, [NoEvalState EXCEPT !.heap = h],
                     [kind |-> "crash", value |-> 0]).ub
    THEN WildOutcomes
    ELSE {[kind |-> "crash", value |-> 0]}

\* size_t pos = 0; parse_result = parse(input, &pos)
Parse ==
    /\ pc = "parse"
    /\ \E b \in BeyondFor(buf, heap) :
         LET r == parse(buf, 0, heap, b) IN
         /\ pres' = r
         /\ heap' = r.heap
         /\ pc' = IF r.crash THEN "crashed"
                  ELSE IF r.is_error = 1 THEN "parse_error"
                  ELSE "eval"
    /\ UNCHANGED <<buf, nlines, eres>>

\* the parse-error branch: print, free_parse_result, return
ReportParseError ==
    /\ pc = "parse_error"
    /\ heap' = free_parse_result(heap, pres)
    /\ pc' = "fgets"
    /\ UNCHANGED <<buf, nlines, pres, eres>>

\* eval_result = eval_ast_node(parse_result.node)
Eval ==
    /\ pc = "eval"
    /\ \E w \in WildFor(pres.node, heap) :
         LET r == eval_ast_node(pres.node, <<>>,
                                [NoEvalState EXCEPT !.heap = heap], w) IN
         /\ eres' = [r EXCEPT !.wild = w]
         /\ heap' = r.heap
         /\ pc' = IF r.crash THEN "crashed"
                  ELSE IF r.is_error = 1 THEN "eval_error"
                  ELSE "print"
    /\ UNCHANGED <<buf, nlines, pres>>

\* the eval-error branch: print, free_parse_result, free_result, return
ReportEvalError ==
    /\ pc = "eval_error"
    /\ heap' = free_result(free_parse_result(heap, pres), eres)
    /\ pc' = "fgets"
    /\ UNCHANGED <<buf, nlines, pres, eres>>

\* print_value, free_result, free_parse_result
PrintValue ==
    /\ pc = "print"
    /\ heap' = free_parse_result(free_result(heap, eres), pres)
    /\ pc' = "fgets"
    /\ UNCHANGED <<buf, nlines, pres, eres>>

Next ==
    \/ FgetsLine
    \/ FgetsEof
    \/ Parse
    \/ ReportParseError
    \/ Eval
    \/ ReportEvalError
    \/ PrintValue

Spec == Init /\ [][Next]_vars

-----------------------------------------------------------------------------
(* Well-formed forms, written out as text and given to process_input *)

Tok(t) == [k |-> "tok", t |-> t, items |-> <<>>]
Form(items) == [k |-> "list", t |-> <<>>, items |-> items]

TokOne == Tok(<<"1">>)
TokMax == Tok(<<"2", "1", "4", "7", "4", "8", "3", "6", "4", "7">>)
TokStr == Tok(<<"\"", "a", "\"">>)
TokX == Tok(<<"x">>)
TokPlus == Tok(<<"+">>)
TokMinus == Tok(<<"-">>)
TokConcat == Tok(<<"c", "o", "n", "c", "a", "t">>)
TokFoo == Tok(<<"f", "o", "o">>)

Atoms == {TokOne, TokMax, TokStr, TokX}
Heads == {TokPlus, TokMinus, TokConcat, TokFoo, TokOne, TokStr, Form(<<>>)}

InnerForms ==
    {Form(<<>>)} \cup
    {Form(<<h>> \o a) : h \in {TokPlus, TokMinus, TokConcat},
                        a \in SeqsUpTo({TokOne, TokStr}, 1)}

TopForms ==
    Atoms \cup {Form(<<>>)} \cup
    {Form(<<h>> \o a) : h \in Heads,
                        a \in SeqsUpTo(Atoms \cup InnerForms, MaxArgs)}

RECURSIVE Render(_)
RECURSIVE RenderItems(_, _)

RenderItems(items, i) ==
    IF i > Len(items) THEN <<>>
    ELSE (IF i > 1 THEN <<" ">> ELSE <<>>) \o Render(items[i])
             \o RenderItems(items, i + 1)

Render(f) ==
    IF f.k = "tok" THEN f.t
    ELSE <<"(">> \o RenderItems(f.items, 1) \o <<")">>

InitEval ==
    /\ pc = "parse"
    /\ buf \in {Render(f) \o <<"\n", NUL>> : f \in TopForms}
    /\ nlines = 1
    /\ pres = NoParse
    /\ eres = NoResult
    /\ heap = EmptyHeap

NextEval == Parse \/ Eval \/ ReportEvalError \/ PrintValue

SpecEval == InitEval /\ [][NextEval]_vars

-----------------------------------------------------------------------------
(* Integer literals, given to process_input *)

\* the digits of a run: runs over any two of these
LitDigits == {"0", "1", "2", "9"}

DigitRuns ==
    UNION {SeqsUpTo({a, b}, MaxDigits) : a, b \in LitDigits} \ {<<>>}

InitLit ==
    /\ pc = "parse"
    /\ buf \in {d \o <<"\n", NUL>> : d \in DigitRuns}
    /\ nlines = 1
    /\ pres = NoParse
    /\ eres = NoResult
    /\ heap = EmptyHeap

NextLit == Parse \/ Eval \/ PrintValue

SpecLit == InitLit /\ [][NextLit]_vars

-----------------------------------------------------------------------------
(* What the properties below speak about *)

\* the kinds of error the messages stand for
ErrorKind(message) ==
    CASE message = "Unmatched '(' in input" -> "UnmatchedOpenParen"
      [] message = "Unterminated string literal in input" -> "UnterminatedString"
      [] message = "Unexpected end of input" -> "UnexpectedEndOfInput"
      [] message = "Cannot evaluate a standalone symbol" -> "BareSymbolNotEvaluable"
      [] message = "Cannot evaluate an empty list" -> "EmptyListNotEvaluable"
      [] message = "First element of a list must be a symbol (operator)"
            -> "OperatorMustBeSymbol"
      [] message = "Unknown operator" -> "UnknownOperator"
      [] message = "Non-integer argument to +" -> "TypeMismatch"
      [] message = "Non-string argument to concat" -> "TypeMismatch"
      [] OTHER -> "Other"

RECURSIVE StrLen(_, _)
\* strlen(input + p) + p: the index of the terminator
StrLen(input, p) ==
    IF p >= Len(input) \/ input[p + 1] = NUL THEN p ELSE StrLen(input, p + 1)

\* the text of the line in the array
Text(input) == SubSeq(input, 1, StrLen(input, 0))

\* parse has returned (or faulted) for the current line
ParseReturned == pc \in {"parse_error", "eval"}
ParseEnded == ParseReturned \/ (pc = "crashed" /\ pres.crash)

\* eval_ast_node has returned (or faulted) for the current line
EvalEnded == pc \in {"eval_error", "print"} \/ (pc = "crashed" /\ ~pres.crash)

\* process_input has returned
LineDone == pc = "fgets" /\ nlines > 0

RECURSIVE Shape(_)
\* a tree without its addresses
Shape(node) ==
    [type |-> node.type, int_value |-> node.int_value, text |-> node.text,
     items |-> [i \in 1..Len(node.items) |-> Shape(node.items[i])]]

RECURSIVE SymbolTexts(_)
\* the names of the Symbol nodes of a tree
SymbolTexts(node) ==
    IF node.type = "symbol" THEN {node.text}
    ELSE IF node.type = "list"
    THEN UNION {SymbolTexts(node.items[i]) : i \in 1..Len(node.items)}
    ELSE {}

IsSymbolNamed(node, name) == node.type = "symbol" /\ node.text = name

\* the form (-): a list whose only child is the symbol -
IsMinusAlone(node) ==
    node.type = "list" /\ Len(node.items) = 1 /\ IsSymbolNamed(node.items[1], <<"-">>)

-----------------------------------------------------------------------------
(* C1 *)

\* C1: evaluating (-) returns the error ArityError and reads no child at an
\* index >= the length of the list.
C1_MinusAloneIsArityError ==
    (EvalEnded /\ IsMinusAlone(pres.node)) =>
        /\ ~eres.ub
        /\ ~eres.crash
        /\ eres.is_error = 1
        /\ ErrorKind(eres.error_message) = "ArityError"

-----------------------------------------------------------------------------
(* C2 *)

\* C2: once the driver has finished a line, every object constructed along
\* the way has been released exactly once: none is live, none was released
\* twice.
C2_EverythingReleasedOnce ==
    LineDone => (Live(heap) = {} /\ heap.bad = 0)

-----------------------------------------------------------------------------
(* C3 *)

\* a line that opens a form and never closes one: it starts with ( and holds
\* neither ) nor a quote
OpensOnly(text) ==
    /\ Len(text) > 0
    /\ text[1] = "("
    /\ \A i \in 1..Len(text) : text[i] # ")" /\ text[i] # "\""

\* C3: when end of input comes before the ) matching a ( that was reached,
\* parse fails with UnmatchedOpenParen, whether or not whitespace (the
\* newline of the line) precedes the end of input.
C3_UnclosedIsUnmatchedOpenParen ==
    (ParseEnded /\ OpensOnly(Text(buf))) =>
        /\ ~pres.crash
        /\ pres.is_error = 1
        /\ ErrorKind(pres.error_message) = "UnmatchedOpenParen"

-----------------------------------------------------------------------------
(* C4 *)

RECURSIVE Squeeze(_)
\* the text without the whitespace that stands right before a )
Squeeze(text) ==
    IF text = <<>> THEN <<>>
    ELSE LET rest == Squeeze(Tail(text)) IN
         IF IsSpace(Head(text)) /\ rest # <<>> /\ Head(rest) = ")" THEN rest
         ELSE <<Head(text)>> \o rest

HasQuote(text) == \E i \in 1..Len(text) : text[i] = "\""

\* C4: whitespace before a ) contributes no child: a line parses to the tree
\* its text without that whitespace parses to (so ( ) is the empty list and
\* (+ 1 2 ) is (+ 1 2)).
C4_SpaceBeforeCloseAddsNoChild ==
    (ParseReturned /\ ~HasQuote(Text(buf)) /\ pres.rd <= StrLen(buf, 0)) =>
        LET q == parse(Squeeze(Text(buf)) \o <<NUL>>, 0, EmptyHeap, FAULT) IN
        (~q.crash /\ q.is_error = 0) =>
            (pres.is_error = 0 /\ Shape(pres.node) = Shape(q.node))

-----------------------------------------------------------------------------
(* C5 *)

RECURSIVE MaximalRun(_, _)
\* the longest run of characters of text from index p (0-based) that are
\* none of space, tab, newline, ( and )
MaximalRun(text, p) ==
    IF p >= Len(text) \/ IsSpace(text[p + 1]) \/ text[p + 1] \in {"(", ")"}
    THEN <<>>
    ELSE <<text[p + 1]>> \o MaximalRun(text, p + 1)

\* C5: every Symbol node parse produces has a non-empty name without
\* parentheses, and it is the maximal run of non-delimiters at its token.
C5_SymbolIsMaximalRun ==
    (ParseReturned /\ pres.is_error = 0) =>
        /\ \A t \in SymbolTexts(pres.node) :
              t # <<>> /\ \A i \in 1..Len(t) : t[i] \notin {"(", ")"}
        /\ pres.node.type = "symbol" =>
              pres.node.text = MaximalRun(Text(buf), SkipSpace(buf, 0, NUL))

-----------------------------------------------------------------------------
(* C10 *)

\* C10: parse reads no character past the terminator, never moves the cursor
\* past it, and a successful parse has consumed at least one character.
C10_ParseStaysInTextAndAdvances ==
    ParseEnded =>
        /\ pres.rd <= StrLen(buf, 0)
        /\ pres.pos <= StrLen(buf, 0)
        /\ (~pres.crash /\ pres.is_error = 0) => pres.pos > 0

-----------------------------------------------------------------------------
(* C6 *)

\* a list whose first child names a built-in operator
IsBuiltinForm(node) ==
    /\ node.type = "list"
    /\ Len(node.items) > 0
    /\ node.items[1].type = "symbol"
    /\ (IsPlus(node.items[1]) \/ IsMinus(node.items[1]) \/ IsConcat(node.items[1]))

\* the kind of value the operator of a built-in form asks of its arguments
RequiredKind(node) == IF IsConcat(node.items[1]) THEN "string" ELSE "int"

\* argument i of a form evaluated on its own
ArgResult(node, i, w) == eval_ast_node(node.items[i + 1], <<i>>, NoEvalState, w)

\* the arguments that fail to evaluate (return an error) or evaluate to a
\* value of the wrong kind
FailingArgs(node, w) ==
    {i \in 1..(Len(node.items) - 1) :
        /\ ~ArgResult(node, i, w).crash
        /\ \/ ArgResult(node, i, w).is_error = 1
           \/ ArgResult(node, i, w).value.type # RequiredKind(node)}

Least(S) == CHOOSE x \in S : \A y \in S : x <= y

\* the direct arguments evaluated, in order
ArgsEvaluated(trace) == SelectSeq(trace, LAMBDA path : Len(path) = 1)

\* the statement of C6 for the form and the result of the state
LeftmostFailureDecides ==
    FailingArgs(pres.node, eres.wild) # {} =>
        LET k == Least(FailingArgs(pres.node, eres.wild))
            r == ArgResult(pres.node, k, eres.wild)
        IN /\ ~eres.crash
           /\ eres.is_error = 1
           /\ r.is_error = 1 => eres.error_message = r.error_message
           /\ r.is_error = 0 => ErrorKind(eres.error_message) = "TypeMismatch"
           /\ ArgsEvaluated(eres.trace) = [i \in 1..k |-> <<i>>]

\* C6: the arguments of a built-in are evaluated left to right, and if some
\* argument fails to evaluate or has the wrong kind, the result is exactly
\* the error of the leftmost such argument (its message unchanged, or
\* TypeMismatch), no argument to its right is evaluated and no value is
\* returned.
C6_LeftmostFailureDecides ==
    (EvalEnded /\ IsBuiltinForm(pres.node)) =>
        LeftmostFailureDecides

\* C6 where no read outside a child array happens: the same statement, for
\* the evaluations that never reach a form (-)
C6_HoldsWithoutWildRead ==
    (EvalEnded /\ IsBuiltinForm(pres.node) /\ ~eres.ub) =>
        LeftmostFailureDecides

C6_HoldsWithoutWildRead_Witness ==
    /\ pc = "eval_error"
    /\ IsBuiltinForm(pres.node)
    /\ ~eres.ub
    /\ Len(pres.node.items) = 3
    /\ eres.trace = <<<<>>, <<1>>>>

-----------------------------------------------------------------------------
(* C7 *)

\* the result is the structural error of this kind, and nothing but the
\* node itself was evaluated
IsStructuralError(res, kind) ==
    /\ ~res.crash
    /\ ~res.ub
    /\ res.is_error = 1
    /\ ErrorKind(res.error_message) = kind
    /\ res.trace = <<<<>>>>

\* C7: a Symbol yields BareSymbolNotEvaluable, an empty List
\* EmptyListNotEvaluable, a List whose first child is no Symbol
\* OperatorMustBeSymbol, a List whose first child is a Symbol other than
\* +, -, concat yields UnknownOperator; each is decided before any
\* argument is evaluated, whatever the other children are.
C7_StructuralErrors ==
    EvalEnded =>
        LET n == pres.node IN
        /\ n.type = "symbol" => IsStructuralError(eres, "BareSymbolNotEvaluable")
        /\ (n.type = "list" /\ Len(n.items) = 0) =>
              IsStructuralError(eres, "EmptyListNotEvaluable")
        /\ (n.type = "list" /\ Len(n.items) > 0 /\ n.items[1].type # "symbol") =>
              IsStructuralError(eres, "OperatorMustBeSymbol")
        /\ (n.type = "list" /\ Len(n.items) > 0 /\ n.items[1].type = "symbol"
               /\ ~IsBuiltinForm(n)) =>
              IsStructuralError(eres, "UnknownOperator")

\* an unknown operator before an argument that would itself fail (a bare
\* symbol) and a form (-), and a list headed by a list
C7_Witness ==
    /\ pc = "eval_error"
    /\ pres.node.type = "list"
    /\ Len(pres.node.items) = 3
    /\ \/ /\ IsSymbolNamed(pres.node.items[1], <<"f", "o", "o">>)
          /\ IsSymbolNamed(pres.node.items[2], <<"x">>)
          /\ IsMinusAlone(pres.node.items[3])
          /\ eres.error_message = "Unknown operator"
       \/ /\ pres.node.items[1].type = "list"
          /\ eres.error_message
                = "First element of a list must be a symbol (operator)"

-----------------------------------------------------------------------------
(* C8 *)

RECURSIVE RefSum(_)
\* the sum of a sequence of ints, in the 32-bit int of IntValue
RefSum(vals) ==
    IF vals = <<>> THEN 0 ELSE Add32(Head(vals), RefSum(Tail(vals)))

RECURSIVE RefJoin(_)
RefJoin(strs) ==
    IF strs = <<>> THEN <<>> ELSE Head(strs) \o RefJoin(Tail(strs))

RECURSIVE RefValue(_)
\* The reference value of a tree: [kind, int, str], of kind "none" where the
\* claim names no value (an error, or a form outside the claim).
RefValue(node) ==
    LET none == [kind |-> "none", int |-> 0, str |-> <<>>] IN
    IF node.type = "int" THEN [none EXCEPT !.kind = "int", !.int = node.int_value]
    ELSE IF node.type = "string"
    THEN [none EXCEPT !.kind = "string", !.str = node.text]
    ELSE IF ~IsBuiltinForm(node) THEN none
    ELSE LET args == [i \in 1..(Len(node.items) - 1) |-> RefValue(node.items[i + 1])]
             ints == [i \in 1..Len(args) |-> args[i].int]
         IN
         IF \E i \in 1..Len(args) : args[i].kind # RequiredKind(node) THEN none
         ELSE IF IsPlus(node.items[1])
         THEN [none EXCEPT !.kind = "int", !.int = RefSum(ints)]
         ELSE IF IsMinus(node.items[1])
         THEN IF Len(args) = 0 THEN none
              ELSE [none EXCEPT !.kind = "int",
                                !.int = Sub32(ints[1], RefSum(Tail(ints)))]
         ELSE [none EXCEPT !.kind = "string",
                           !.str = RefJoin([i \in 1..Len(args) |-> args[i].str])]

\* C8: a built-in form whose arguments all evaluate to the required kind
\* evaluates to the fold of their values, nested forms included: the sum
\* (0 without arguments), the first minus the later ones, the strings
\* joined ("" without arguments).
C8_BuiltinsFold ==
    (EvalEnded /\ IsBuiltinForm(pres.node) /\ RefValue(pres.node).kind # "none") =>
        /\ ~eres.crash
        /\ eres.is_error = 0
        /\ eres.value.type = RefValue(pres.node).kind
        /\ eres.value.int_value = RefValue(pres.node).int
        /\ eres.value.string_value = RefValue(pres.node).str

\* a form with two nested forms as arguments has been evaluated to a value
C8_Witness ==
    /\ pc = "print"
    /\ IsBuiltinForm(pres.node)
    /\ Len(pres.node.items) = 3
    /\ IsBuiltinForm(pres.node.items[2])
    /\ IsBuiltinForm(pres.node.items[3])
    /\ IsMinus(pres.node.items[3].items[1])
    /\ eres.value.type = "int"
    /\ eres.value.int_value = 0

-----------------------------------------------------------------------------
(* C9 *)

\* the digit run of the line
DigitsOf(input) == SelectSeq(Text(input), IsDigit)

RECURSIVE StripZeros(_)
StripZeros(d) ==
    IF d # <<>> /\ Head(d) = "0" THEN StripZeros(Tail(d)) ELSE d

DigitOf(c) == CHOOSE v \in 0..9 : Ord(c) = Ord("0") + v

RECURSIVE LexLeq(_, _)
\* d <= e for digit runs of one length
LexLeq(d, e) ==
    \/ d = <<>>
    \/ DigitOf(Head(d)) < DigitOf(Head(e))
    \/ (Head(d) = Head(e) /\ LexLeq(Tail(d), Tail(e)))

\* the decimal value of the run fits a 32-bit signed int
Representable(d) ==
    LET s == StripZeros(d) IN
    \/ Len(s) < 10
    \/ (Len(s) = 10 /\ LexLeq(s, <<"2", "1", "4", "7", "4", "8", "3", "6", "4", "7">>))

RECURSIVE Pow10(_)
Pow10(k) == IF k = 0 THEN 1 ELSE 10 * Pow10(k - 1)

RECURSIVE DecimalValue(_)
\* the number a representable digit run denotes: digit times weight
DecimalValue(d) ==
    IF d = <<>> THEN 0
    ELSE (IF Head(d) = "0" THEN 0 ELSE DigitOf(Head(d)) * Pow10(Len(d) - 1))
            + DecimalValue(Tail(d))

RECURSIVE Limbs(_)
\* the number a digit run denotes modulo 2^32, as <<high, low>> 16-bit limbs
Limbs(d) ==
    IF d = <<>> THEN <<0, 0>>
    ELSE LET m == Limbs(SubSeq(d, 1, Len(d) - 1))
             lo == m[2] * 10 + DigitOf(d[Len(d)])
         IN <<(m[1] * 10 + lo \div 65536) % 65536, lo % 65536>>

\* the 32-bit signed int with those limbs
SignedOf(m) ==
    IF m[1] >= 32768 THEN (m[1] - 65536) * 65536 + m[2] ELSE m[1] * 65536 + m[2]

\* C9: a digit run that denotes a representable n parses and evaluates to
\* IntValue(n), leading zeros or not; a longer one yields its value wrapped
\* modulo 2^32, never an error.
C9_LiteralRoundTrip ==
    /\ pc \notin {"parse_error", "eval_error", "crashed"}
    /\ pc = "print" =>
          /\ eres.is_error = 0
          /\ eres.value.type = "int"
          /\ eres.value.int_value =
                IF Representable(DigitsOf(buf)) THEN DecimalValue(DigitsOf(buf))
                ELSE SignedOf(Limbs(DigitsOf(buf)))

\* a ten-digit run beyond the width has been evaluated to a negative int
C9_Witness ==
    /\ pc = "print"
    /\ Len(DigitsOf(buf)) = 10
    /\ ~Representable(DigitsOf(buf))
    /\ eres.value.int_value < 0

=============================================================================
